---------------------------- MODULE Spec2Model ----------------------------
(***************************************************************************)
(* Model of the nutrition-assistant RAG chat:                              *)
(*   - the server handler POST of rag-chat/src/app/api/chat/route.ts       *)
(*     (validate, embed, retrieve, assemble context, generate, normalise   *)
(*     sources), one step per awaited external call;                       *)
(*   - the client component Home of rag-chat/src/app/page.tsx              *)
(*     (parseCitations, the message render, the citation popup and         *)
(*     sendMessage).                                                       *)
(* A string whose characters the code inspects (the request message, the   *)
(* answer text, the input box) is a sequence of pieces: each character the *)
(* code can tell apart (white space, brackets, digits) is a piece of its   *)
(* own, any other run of characters is one opaque piece.  JavaScript       *)
(* values whose type the code tests are tagged records.                    *)
(***************************************************************************)
EXTENDS Integers, Sequences, FiniteSets, TLC

VARIABLES
    \* ---- server: one request through POST (route.ts)
    body,          \* what req.json() yields for the request
    spc,           \* position of POST: "start", "embedding", "retrieving", "generating", "done"
    calls,         \* external calls made so far by this request, in order
    failedAt,      \* which external call failed ("none" if none did)
    chunks,        \* data returned by supabase.rpc("match_documents")
    context,       \* the context string sent to the model (sequence of string pieces)
    response,      \* the Response returned, NoResponse before that
    \* ---- client: one assistant message (page.tsx, parseCitations and render)
    data,          \* the parsed JSON of a 200 response: [answer, sources]
    message,       \* the assistant Message built from data, NoMessage before that
    rendered,      \* the elements the render produced for message.content
    \* ---- client: the Home component's state (page.tsx)
    input,         \* useState input
    messages,      \* useState messages
    isLoading,     \* useState isLoading
    citationPopup, \* useState citationPopup
    cpc,           \* position of sendMessage: "idle", "fetching", "reading"
    inFlight,      \* number of fetches to /api/chat issued and not yet settled
    fetched,       \* the Response fetch resolved with
    submits,       \* number of times sendMessage was invoked
    lastPopupEvent \* the user's last popup interaction: activation, close, or none

serverVars == <<body, spc, calls, failedAt, chunks, context, response>>
renderVars == <<data, message, rendered>>
clientVars == <<input, messages, isLoading, citationPopup, cpc, inFlight, fetched,
                submits, lastPopupEvent>>
vars == <<serverVars, renderVars, clientVars>>

-----------------------------------------------------------------------------
(* JavaScript values *)

Str(s) == [kind |-> "string", val |-> s]
Num(n) == [kind |-> "number", val |-> n]
Undefined == [kind |-> "undefined"]
Null == [kind |-> "null"]

\* typeof v === "number"
IsNumber(v) == v.kind = "number"

\* a ?? b
Nullish(a, b) == IF a.kind \in {"undefined", "null"} THEN b ELSE a

Digits == <<"0", "1", "2", "3", "4", "5", "6", "7", "8", "9">>
IsDigit(c) == \E d \in 1..10 : Digits[d] = c
DigitValue(c) == (CHOOSE d \in 1..10 : Digits[d] = c) - 1

\* Number.prototype.toString for a natural number, as characters
RECURSIVE NatToChars(_)
NatToChars(n) ==
    IF n < 10 THEN <<Digits[n + 1]>>
    ELSE NatToChars(n \div 10) \o <<Digits[(n % 10) + 1]>>

\* parseInt of a string of decimal digits
RECURSIVE ParseInt(_)
ParseInt(ds) ==
    IF ds = <<>> THEN 0
    ELSE 10 * ParseInt(SubSeq(ds, 1, Len(ds) - 1)) + DigitValue(ds[Len(ds)])

WhiteSpace == {" ", "\t", "\n"}

RECURSIVE TrimStart(_)
TrimStart(s) ==
    IF s # <<>> /\ Head(s) \in WhiteSpace THEN TrimStart(Tail(s)) ELSE s

RECURSIVE TrimEnd(_)
TrimEnd(s) ==
    IF s # <<>> /\ s[Len(s)] \in WhiteSpace
    THEN TrimEnd(SubSeq(s, 1, Len(s) - 1)) ELSE s

\* variant of Trim: the message is used as sent (changed code for C1)
NoTrim(s) == s

\* String.prototype.trim
Trim(s) == TrimEnd(TrimStart(s))

\* (v).toString() for the values a JSON body can hold in "message"
JsToString(v) == IF v.kind = "number" THEN NatToChars(v.val) ELSE v.val

-----------------------------------------------------------------------------
(* Bounds of the server model *)

MaxMessageLen == 2
MaxChunks == 2

RECURSIVE SeqsUpTo(_, _)
SeqsUpTo(S, n) ==
    IF n = 0 THEN {<<>>}
    ELSE LET shorter == SeqsUpTo(S, n - 1)
         IN  shorter \cup {Append(s, x) : s \in {t \in shorter : Len(t) = n - 1}, x \in S}

MessageStrings == SeqsUpTo({" ", "\n", "q"}, MaxMessageLen)

\* What req.json() can yield: a rejection, or an object whose "message" is
\* absent, null, a string or a number.
Bodies ==
    {[kind |-> "invalid"]}
    \cup {[kind |-> "object", message |-> m] :
            m \in {Undefined, Null, Num(40)} \cup {Str(s) : s \in MessageStrings}}

\* A row returned by match_documents; page is the value of c.metadata?.page.
RetrievedChunks ==
    [content : {"", "a"},
     similarity : {Num(80), Undefined},
     page : {Num(12), Undefined, Str("12")}]

Array(s) == [kind |-> "array", val |-> s]

\* What supabase.rpc resolves with: { data, error }.
PostgrestError == [kind |-> "object"]
RpcResults ==
    {[data |-> Null, error |-> PostgrestError], [data |-> Null, error |-> Null]}
    \cup {[data |-> Array(cs), error |-> Null] : cs \in SeqsUpTo(RetrievedChunks, MaxChunks)}

\* What a rejected SDK call rejects with.
Errors == {[kind |-> "Error", message |-> "service unavailable"],
           [kind |-> "Error", message |-> ""]}

\* completion.choices[0]?.message?.content of a resolved completion
Completions == {Undefined, Null, Str(<<>>), Str(<<"x", "[", "1", "]">>),
                Str(<<"[", "2", "]", "[", "9", "]">>)}

-----------------------------------------------------------------------------
(* route.ts: POST *)

NoResponse == [status |-> 0]
JsonResponse(status, payload) == [status |-> status, body |-> payload]

\* const message = (body?.message ?? "").toString().trim()
Message(b) == Trim(JsToString(Nullish(b.message, Str(<<>>))))

\* (chunks as RetrievedChunk[]) ?? []
Passages(d) == IF d.kind = "array" THEN d.val ELSE <<>>

\* variant of RpcFailed: the error of the rpc result is not looked at (changed code for C4)
RpcErrorIgnored(result) == FALSE

\* if (error) throw error
RpcFailed(result) == result.error # Null

RECURSIVE Join(_, _)
Join(entries, sep) ==
    IF entries = <<>> THEN <<>>
    ELSE IF Len(entries) = 1 THEN entries[1]
    ELSE entries[1] \o sep \o Join(Tail(entries), sep)

\* `[${i + 1}] (Page ${pageNum}) ${c.content}`
ContextEntry(c, i) ==
    LET pageNum == IF IsNumber(c.page) THEN ToString(c.page.val) ELSE "?"
    IN  <<"[", ToString(i + 1), "] (Page ", pageNum, ") ", c.content>>

\* chunks.map(...).join("\n\n")
BuildContext(d) ==
    LET cs == Passages(d)
    IN  Join([k \in 1..Len(cs) |-> ContextEntry(cs[k], k - 1)], <<"\n\n">>)

\* variant of NoContext: no short-circuit (changed code for C2)
NeverNoContext(ctx) == FALSE

\* if (!context)
NoContext(ctx) == ctx = <<>>

FallbackAnswer == <<"try to response  related to the question and the context provided">>

\* variant of ProcessedSources: index counted from 0 (changed code for C3)
ProcessedSourcesFromZero(d) ==
    LET cs == Passages(d)
    IN  [k \in 1..Len(cs) |->
            LET index == k - 1
            IN  [id |-> Str("source-" \o ToString(index)),
                 page |-> IF IsNumber(cs[k].page) THEN cs[k].page ELSE Null,
                 content |-> Str(cs[k].content),
                 similarity |-> IF IsNumber(cs[k].similarity) THEN cs[k].similarity ELSE Num(0),
                 index |-> Num(index)]]

\* chunks.map((chunk, index) => ({ id, page, content, similarity, index }))
ProcessedSources(d) ==
    LET cs == Passages(d)
    IN  [k \in 1..Len(cs) |->
            LET index == k - 1
            IN  [id |-> Str("source-" \o ToString(index)),
                 page |-> IF IsNumber(cs[k].page) THEN cs[k].page ELSE Null,
                 content |-> Str(cs[k].content),
                 similarity |-> IF IsNumber(cs[k].similarity) THEN cs[k].similarity ELSE Num(0),
                 index |-> Num(index + 1)]]

\* err instanceof Error ? err.message : String(err), then message || "Unknown error"
ErrorText(err) ==
    LET msg == IF err.kind = "Error" THEN err.message ELSE "[object Object]"
    IN  IF msg = "" THEN "Unknown error" ELSE msg

\* the catch block
Caught(err) == JsonResponse(500, [error |-> Str(ErrorText(err))])

\* POST up to its first external call: read the body, validate, call embedQuery.
Post ==
    /\ spc = "start"
    /\ IF body.kind = "invalid"
       THEN /\ response' = Caught([kind |-> "Error", message |-> "Unexpected end of JSON input"])
            /\ spc' = "done"
            /\ failedAt' = "json"
            /\ calls' = calls
       ELSE IF Message(body) = <<>>
       THEN /\ response' = JsonResponse(400, [error |-> Str("Empty query")])
            /\ spc' = "done"
            /\ UNCHANGED <<failedAt, calls>>
       ELSE /\ calls' = Append(calls, "embed")
            /\ spc' = "embedding"
            /\ UNCHANGED <<failedAt, response>>
    /\ UNCHANGED <<body, chunks, context>>
    /\ UNCHANGED <<renderVars, clientVars>>

\* embedQuery resolves: call supabase.rpc.
EmbedResolves ==
    /\ spc = "embedding"
    /\ calls' = Append(calls, "retrieve")
    /\ spc' = "retrieving"
    /\ UNCHANGED <<body, failedAt, chunks, context, response>>
    /\ UNCHANGED <<renderVars, clientVars>>

\* embedQuery rejects: the catch block answers.
EmbedRejects ==
    /\ spc = "embedding"
    /\ \E err \in Errors : response' = Caught(err)
    /\ failedAt' = "embed"
    /\ spc' = "done"
    /\ UNCHANGED <<body, calls, chunks, context>>
    /\ UNCHANGED <<renderVars, clientVars>>

\* supabase.rpc resolves: throw on error, else build the context and either
\* short-circuit or call the chat completion.
RpcResolves ==
    /\ spc = "retrieving"
    /\ \E result \in RpcResults :
        /\ chunks' = result.data
        /\ failedAt' = IF result.error # Null THEN "retrieve" ELSE failedAt
        /\ IF RpcFailed(result)
           THEN /\ response' = Caught(result.error)
                /\ spc' = "done"
                /\ UNCHANGED <<calls, context>>
           ELSE /\ context' = BuildContext(result.data)
                /\ IF NoContext(context')
                   THEN /\ response' = JsonResponse(200, [answer |-> Str(FallbackAnswer),
                                                                sources |-> Array(<<>>)])
                        /\ spc' = "done"
                        /\ calls' = calls
                   ELSE /\ calls' = Append(calls, "generate")
                        /\ spc' = "generating"
                        /\ response' = response
    /\ UNCHANGED body
    /\ UNCHANGED <<renderVars, clientVars>>

\* the chat completion resolves: normalise the sources and answer 200.
CompletionResolves ==
    /\ spc = "generating"
    /\ \E content \in Completions :
        LET answer == Nullish(content, Str(<<>>))
        IN  response' = JsonResponse(200, [answer |-> answer,
                                           sources |-> Array(ProcessedSources(chunks))])
    /\ spc' = "done"
    /\ UNCHANGED <<body, calls, failedAt, chunks, context>>
    /\ UNCHANGED <<renderVars, clientVars>>

\* the chat completion rejects: the catch block answers.
CompletionRejects ==
    /\ spc = "generating"
    /\ \E err \in Errors : response' = Caught(err)
    /\ failedAt' = "generate"
    /\ spc' = "done"
    /\ UNCHANGED <<body, calls, chunks, context>>
    /\ UNCHANGED <<renderVars, clientVars>>

-----------------------------------------------------------------------------
(* page.tsx: parseCitations and the message render *)

\* obj.key of a parsed JSON object: undefined when the key is absent
Get(obj, key) == IF key \in DOMAIN obj THEN obj[key] ELSE Undefined

\* number of consecutive digits of s from position i on
RECURSIVE DigitRun(_, _)
DigitRun(s, i) ==
    IF i <= Len(s) /\ IsDigit(s[i]) THEN 1 + DigitRun(s, i + 1) ELSE 0

\* length of the match of /\[(\d+)\]/ that starts at position i of s, 0 if none
MatchLen(s, i) ==
    IF i <= Len(s) /\ s[i] = "["
    THEN LET d == DigitRun(s, i + 1)
         IN  IF d >= 1 /\ i + d + 1 <= Len(s) /\ s[i + d + 1] = "]" THEN d + 2 ELSE 0
    ELSE 0

\* content.match(/\[(\d+)\]/g): every match from position i on, left to right
RECURSIVE MatchAll(_, _)
MatchAll(s, i) ==
    IF i > Len(s) THEN <<>>
    ELSE LET n == MatchLen(s, i)
         IN  IF n > 0 THEN <<SubSeq(s, i, i + n - 1)>> \o MatchAll(s, i + n)
             ELSE MatchAll(s, i + 1)

\* match.replace(/[\[\]]/g, '')
RECURSIVE StripBrackets(_)
StripBrackets(s) ==
    IF s = <<>> THEN <<>>
    ELSE IF Head(s) \in {"[", "]"} THEN StripBrackets(Tail(s))
    ELSE <<Head(s)>> \o StripBrackets(Tail(s))

\* variant of Unique: duplicates are kept (changed code for C5)
NotUnique(xs) == xs

\* [...new Set(xs)]: the distinct elements, in order of first insertion
RECURSIVE Unique(_)
Unique(xs) ==
    IF xs = <<>> THEN <<>>
    ELSE LET init == Unique(SubSeq(xs, 1, Len(xs) - 1))
             x == xs[Len(xs)]
         IN  IF \E k \in 1..Len(init) : init[k] = x THEN init ELSE Append(init, x)

\* [...new Set(matches.map(match => parseInt(match.replace(/[\[\]]/g, ''))))]
UniqueCitations(matches) ==
    Unique([k \in 1..Len(matches) |-> ParseInt(StripBrackets(matches[k]))])

\* if (sources[sourceIndex]), sourceIndex counted from 0
HasSource(srcs, sourceIndex) == sourceIndex >= 0 /\ sourceIndex < Len(srcs)

\* the Citation pushed for sources[sourceIndex]
MakeCitation(srcs, sourceIndex) ==
    LET src == srcs[sourceIndex + 1]
    IN  [id |-> Nullish(Get(src, "id"), Str("citation-" \o ToString(sourceIndex))),
         page |-> IF IsNumber(Get(src, "page")) THEN src.page ELSE Num(sourceIndex + 1),
         content |-> Nullish(Get(src, "content"), Str("")),
         similarity |-> IF IsNumber(Get(src, "similarity")) THEN src.similarity ELSE Num(0)]

\* uniqueCitations.forEach(citationNumber => { ... citations.push(...) })
RECURSIVE PushCitations(_, _)
PushCitations(numbers, srcs) ==
    IF numbers = <<>> THEN <<>>
    ELSE LET sourceIndex == Head(numbers) - 1
             rest == PushCitations(Tail(numbers), srcs)
         IN  IF HasSource(srcs, sourceIndex)
             THEN <<MakeCitation(srcs, sourceIndex)>> \o rest
             ELSE rest

\* content.match(...) on a content that is no string throws a TypeError
MatchThrows(content) == content.kind # "string"

\* the citations parseCitations collects for a string content
CitationsOf(content, srcs) ==
    LET matches == MatchAll(content.val, 1)
    IN  IF matches # <<>> /\ Len(srcs) > 0
        THEN PushCitations(UniqueCitations(matches), srcs)
        ELSE <<>>

\* variant of ParseCitations: content?.match(...), so that a content that is
\* no string is returned as it is (changed code for C10)
ParseCitationsOptionalMatch(content, sourcesArg) ==
    LET srcs == IF sourcesArg.kind = "undefined" THEN <<>> ELSE sourcesArg.val
    IN  IF content.kind # "string"
        THEN [threw |-> FALSE, text |-> content, citations |-> <<>>]
        ELSE [threw |-> FALSE, text |-> content, citations |-> CitationsOf(content, srcs)]

\* parseCitations(content, sources = [])
ParseCitations(content, sourcesArg) ==
    LET srcs == IF sourcesArg.kind = "undefined" THEN <<>> ELSE sourcesArg.val
    IN  IF MatchThrows(content) THEN [threw |-> TRUE]
        ELSE [threw |-> FALSE, text |-> content, citations |-> CitationsOf(content, srcs)]

\* s.split(/(\[\d+\])/): literal, marker, literal, ..., literal
RECURSIVE SplitFrom(_, _, _)
SplitFrom(s, i, literal) ==
    IF i > Len(s) THEN <<literal>>
    ELSE LET n == MatchLen(s, i)
         IN  IF n > 0
             THEN <<literal, SubSeq(s, i, i + n - 1)>> \o SplitFrom(s, i + n, <<>>)
             ELSE SplitFrom(s, i + 1, Append(literal, s[i]))

Split(s) == SplitFrom(s, 1, <<>>)

\* part.match(/\[(\d+)\]/): the position of the first match in part, 0 if none
FirstMatch(part) ==
    IF \E i \in 1..Len(part) : MatchLen(part, i) > 0
    THEN CHOOSE i \in 1..Len(part) :
            /\ MatchLen(part, i) > 0
            /\ \A j \in 1..(i - 1) : MatchLen(part, j) = 0
    ELSE 0

\* variant of CitationAt: message.citations.at(citationIndex), where a negative
\* index counts from the end (changed code for C7)
CitationAtFromEnd(citations, citationIndex) ==
    IF citationIndex >= 0 /\ citationIndex < Len(citations)
    THEN citations[citationIndex + 1]
    ELSE IF citationIndex < 0 /\ Len(citations) + citationIndex >= 0
    THEN citations[Len(citations) + citationIndex + 1]
    ELSE Undefined

\* message.citations[citationIndex], citationIndex counted from 0
CitationAt(citations, citationIndex) ==
    IF citationIndex >= 0 /\ citationIndex < Len(citations)
    THEN citations[citationIndex + 1] ELSE Undefined

\* the element the render returns for one part of message.content
RenderPart(part, msg) ==
    LET at == FirstMatch(part)
        span == [kind |-> "span", text |-> part]
    IN  IF at > 0 /\ "citations" \in DOMAIN msg
        THEN LET digits == SubSeq(part, at + 1, at + MatchLen(part, at) - 2)
                 citationIndex == ParseInt(digits) - 1
                 citation == CitationAt(msg.citations, citationIndex)
             IN  IF citation # Undefined
                 THEN [kind |-> "button",
                       label |-> <<"[">> \o digits \o <<"]">>,
                       citation |-> citation]
                 ELSE span
        ELSE span

\* message.content.split(/(\[\d+\])/).map((part, i) => ...)
Render(msg) ==
    LET parts == Split(msg.content.val)
    IN  [k \in 1..Len(parts) |-> RenderPart(parts[k], msg)]

\* the assistant Message sendMessage builds from the response data
AssistantMessage(parsed) ==
    [role |-> "assistant", content |-> parsed.text, citations |-> parsed.citations]

(* Bounds and inputs of the render model *)

MaxPieces == 3
MaxSources == 2

RECURSIVE Flatten(_)
Flatten(ss) == IF ss = <<>> THEN <<>> ELSE Head(ss) \o Flatten(Tail(ss))

AnswerPieces == {<<"x">>, <<"[">>, <<"[", "0", "]">>, <<"[", "1", "]">>, <<"[", "2", "]">>,
                 <<"[", "3", "]">>, <<"[", "0", "1", "]">>}

Texts == {Flatten(ps) : ps \in SeqsUpTo(AnswerPieces, MaxPieces)}

SourceLists ==
    {ProcessedSources(Array(cs)) :
        cs \in SeqsUpTo([content : {"a"}, similarity : {Num(80)}, page : {Num(12), Undefined}],
                        MaxSources)}

NoMessage == [role |-> "none"]
\* split never returns an empty list, so the empty sequence is no render's result
NotRendered == <<>>

\* sendMessage, from the parsed response data to the assistant message
BuildAssistantMessage ==
    /\ message = NoMessage
    /\ message' = AssistantMessage(ParseCitations(Get(data, "answer"), Get(data, "sources")))
    /\ UNCHANGED <<data, rendered>>
    /\ UNCHANGED <<serverVars, clientVars>>

\* the render of the assistant message
RenderMessage ==
    /\ message # NoMessage
    /\ rendered = NotRendered
    /\ rendered' = Render(message)
    /\ UNCHANGED <<data, message>>
    /\ UNCHANGED <<serverVars, clientVars>>

-----------------------------------------------------------------------------
(* page.tsx: the Home component's state, sendMessage and the citation popup *)

MaxSubmits == 3

\* what the user can have in the input box
Inputs == {<<>>, <<" ">>, <<"q">>}

\* the bounding box of a citation button when it is activated
Rects == {[left |-> 40, top |-> 100], [left |-> 200, top |-> 300]}

ClientSources ==
    {ProcessedSources(Array(<<[content |-> "a", similarity |-> Num(80), page |-> Num(12)]>>)),
     ProcessedSources(Array(<<[content |-> "a", similarity |-> Num(80), page |-> Num(12)],
                              [content |-> "b", similarity |-> Num(70), page |-> Undefined]>>))}

ClientAnswers == {<<"x", "[", "1", "]">>, <<"[", "2", "]", "[", "1", "]">>}

\* a body that is no JSON text (a gateway's error page)
HtmlBody == [html |-> TRUE]

\* what fetch("/api/chat") can resolve with
ClientResponses ==
    {JsonResponse(400, [error |-> Str("Empty query")]),
     JsonResponse(500, [error |-> Str("service unavailable")]),
     JsonResponse(502, HtmlBody),
     JsonResponse(200, [answer |-> Str(FallbackAnswer), sources |-> Array(<<>>)])}
    \cup {JsonResponse(200, [answer |-> Str(a), sources |-> Array(ss)]) :
            a \in ClientAnswers, ss \in ClientSources}

\* response.json() rejects when the body is no JSON text
JsonThrows(r) == "html" \in DOMAIN r.body

\* variant of Rejected: only the busy flag is looked at (changed code for C9)
RejectedOnlyWhenBusy(inp, loading) == loading

\* if (!input.trim() || isLoading) return
Rejected(inp, loading) == Trim(inp) = <<>> \/ loading

UserMessage(inp) == [role |-> "user", content |-> Str(inp)]

ErrorMessage ==
    [role |-> "assistant", content |-> Str(<<"Sorry, I encountered an error. Please try again.">>)]

\* variant of OpenPopup: an open popup is kept (changed code for C8)
OpenPopupIfClosed(current, citation, rect) ==
    IF current # Null THEN current
    ELSE [citation |-> citation, x |-> rect.left, y |-> rect.top - 10]

\* setCitationPopup({ citation, x: rect.left, y: rect.top - 10 })
OpenPopup(current, citation, rect) ==
    [citation |-> citation, x |-> rect.left, y |-> rect.top - 10]

\* onChange of the textarea, which is disabled while isLoading
SetInput ==
    /\ ~isLoading
    /\ \E v \in Inputs : input' = v
    /\ UNCHANGED <<messages, isLoading, citationPopup, cpc, inFlight, fetched, submits,
                   lastPopupEvent>>
    /\ UNCHANGED <<serverVars, renderVars>>

\* sendMessage up to the fetch: the guard, the user message, the request
SendMessage ==
    /\ submits < MaxSubmits
    /\ submits' = submits + 1
    /\ IF Rejected(input, isLoading)
       THEN UNCHANGED <<input, messages, isLoading, cpc, inFlight>>
       ELSE /\ messages' = Append(messages, UserMessage(input))
            /\ input' = <<>>
            /\ isLoading' = TRUE
            /\ inFlight' = inFlight + 1
            /\ cpc' = "fetching"
    /\ UNCHANGED <<citationPopup, fetched, lastPopupEvent>>
    /\ UNCHANGED <<serverVars, renderVars>>

\* variant of FetchRejects: catch without the finally block, so that the busy
\* flag stays set (changed code for C11)
FetchRejectsWithoutFinally ==
    /\ cpc = "fetching"
    /\ inFlight' = inFlight - 1
    /\ fetched' = NoResponse
    /\ messages' = Append(messages, ErrorMessage)
    /\ cpc' = "idle"
    /\ UNCHANGED <<input, isLoading, citationPopup, submits, lastPopupEvent>>
    /\ UNCHANGED <<serverVars, renderVars>>

\* fetch rejects (network failure): catch, then finally
FetchRejects ==
    /\ cpc = "fetching"
    /\ inFlight' = inFlight - 1
    /\ fetched' = NoResponse
    /\ messages' = Append(messages, ErrorMessage)
    /\ isLoading' = FALSE
    /\ cpc' = "idle"
    /\ UNCHANGED <<input, citationPopup, submits, lastPopupEvent>>
    /\ UNCHANGED <<serverVars, renderVars>>

\* fetch resolves with a response, whatever its status
FetchResolves ==
    /\ cpc = "fetching"
    /\ \E r \in ClientResponses : fetched' = r
    /\ inFlight' = inFlight - 1
    /\ cpc' = "reading"
    /\ UNCHANGED <<input, messages, isLoading, citationPopup, submits, lastPopupEvent>>
    /\ UNCHANGED <<serverVars, renderVars>>

\* the message sendMessage appends once response.json() has settled: the
\* assistant message, or the error message of the catch block when
\* response.json() or parseCitations threw
SettledMessage(r) ==
    LET parsed == ParseCitations(Get(r.body, "answer"), Get(r.body, "sources"))
    IN  IF JsonThrows(r) \/ parsed.threw THEN ErrorMessage ELSE AssistantMessage(parsed)

\* response.json() settles: parseCitations and the assistant message, or catch;
\* then finally
JsonSettles ==
    /\ cpc = "reading"
    /\ messages' = Append(messages, SettledMessage(fetched))
    /\ isLoading' = FALSE
    /\ cpc' = "idle"
    /\ UNCHANGED <<input, citationPopup, inFlight, fetched, submits, lastPopupEvent>>
    /\ UNCHANGED <<serverVars, renderVars>>

\* handleCitationClick, from the onClick of a rendered citation button
HandleCitationClick ==
    /\ \E k \in 1..Len(messages) :
        LET elements == Render(messages[k])
        IN  \E e \in 1..Len(elements), rect \in Rects :
                /\ elements[e].kind = "button"
                /\ citationPopup' = OpenPopup(citationPopup, elements[e].citation, rect)
                /\ lastPopupEvent' = [type |-> "activate",
                                      citation |-> elements[e].citation, rect |-> rect]
    /\ UNCHANGED <<input, messages, isLoading, cpc, inFlight, fetched, submits>>
    /\ UNCHANGED <<serverVars, renderVars>>

\* closeCitationPopup, from the popup's close button (rendered while open)
CloseCitationPopup ==
    /\ citationPopup # Null
    /\ citationPopup' = Null
    /\ lastPopupEvent' = [type |-> "close"]
    /\ UNCHANGED <<input, messages, isLoading, cpc, inFlight, fetched, submits>>
    /\ UNCHANGED <<serverVars, renderVars>>

\* closeCitationPopup, from a click on the scrim (rendered while open)
ScrimClick ==
    /\ citationPopup # Null
    /\ citationPopup' = Null
    /\ lastPopupEvent' = [type |-> "scrim"]
    /\ UNCHANGED <<input, messages, isLoading, cpc, inFlight, fetched, submits>>
    /\ UNCHANGED <<serverVars, renderVars>>

-----------------------------------------------------------------------------
(* Specifications *)

NextServer ==
    \/ Post
    \/ EmbedResolves
    \/ EmbedRejects
    \/ RpcResolves
    \/ CompletionResolves
    \/ CompletionRejects

NextRender ==
    \/ BuildAssistantMessage
    \/ RenderMessage

NextClient ==
    \/ SetInput
    \/ SendMessage
    \/ FetchRejects
    \/ FetchResolves
    \/ JsonSettles
    \/ HandleCitationClick
    \/ CloseCitationPopup
    \/ ScrimClick

\* one request through POST /api/chat (the client parts stay as constructed)
StartServer ==
    /\ body \in Bodies
    /\ spc = "start"
    /\ calls = <<>>
    /\ failedAt = "none"
    /\ chunks = Undefined
    /\ context = <<>>
    /\ response = NoResponse
    /\ data = [answer |-> Str(<<>>), sources |-> Array(<<>>)]
    /\ message = NoMessage
    /\ rendered = NotRendered
    /\ input = <<>>
    /\ messages = <<>>
    /\ isLoading = FALSE
    /\ citationPopup = Null
    /\ cpc = "idle"
    /\ inFlight = 0
    /\ fetched = NoResponse
    /\ submits = 0
    /\ lastPopupEvent = [type |-> "none"]

SpecServer == StartServer /\ [][NextServer]_vars

\* one assistant message, from the data of a 200 response to the rendered
\* elements (no request at the server, the component's state as constructed)
StartRender ==
    /\ body = [kind |-> "invalid"]
    /\ spc = "done"
    /\ calls = <<>>
    /\ failedAt = "none"
    /\ chunks = Undefined
    /\ context = <<>>
    /\ response = NoResponse
    /\ data \in [answer : {Str(t) : t \in Texts}, sources : {Array(ss) : ss \in SourceLists}]
    /\ message = NoMessage
    /\ rendered = NotRendered
    /\ input = <<>>
    /\ messages = <<>>
    /\ isLoading = FALSE
    /\ citationPopup = Null
    /\ cpc = "idle"
    /\ inFlight = 0
    /\ fetched = NoResponse
    /\ submits = 0
    /\ lastPopupEvent = [type |-> "none"]

SpecRender == StartRender /\ [][NextRender]_vars

\* one session of the Home component (no request at the server)
Init ==
    /\ body = [kind |-> "invalid"]
    /\ spc = "done"
    /\ calls = <<>>
    /\ failedAt = "none"
    /\ chunks = Undefined
    /\ context = <<>>
    /\ response = NoResponse
    /\ data = [answer |-> Str(<<>>), sources |-> Array(<<>>)]
    /\ message = NoMessage
    /\ rendered = NotRendered
    /\ input = <<>>
    /\ messages = <<>>
    /\ isLoading = FALSE
    /\ citationPopup = Null
    /\ cpc = "idle"
    /\ inFlight = 0
    /\ fetched = NoResponse
    /\ submits = 0
    /\ lastPopupEvent = [type |-> "none"]

Next == NextClient

Spec == Init /\ [][Next]_vars

\* a step in which the awaited fetch settles, and one in which the awaited
\* response.json() settles: of the actions of Next, only FetchRejects and
\* FetchResolves take the first and only JsonSettles takes the second
FetchSettles == cpc = "fetching" /\ cpc' \in {"idle", "reading"}
BodyReadSettles == cpc = "reading" /\ cpc' = "idle"

\* the same session when every fetch settles (it rejects or resolves) and the
\* read of every resolved response's body settles
FairSpec ==
    /\ Init
    /\ [][Next]_vars
    /\ WF_cpc(FetchSettles)
    /\ WF_cpc(BodyReadSettles)

-----------------------------------------------------------------------------
(* Properties of POST, checked under SpecServer *)

Range(f) == {f[k] : k \in DOMAIN f}

\* the request carries no message, or one made of white space only
BlankMessage(b) ==
    /\ b.kind = "object"
    /\ \/ b.message.kind \in {"undefined", "null"}
       \/ /\ b.message.kind = "string"
          /\ \A k \in 1..Len(b.message.val) : b.message.val[k] \in WhiteSpace

\* C1: a request whose message is empty or white space only never makes an
\* embedding, retrieval or generation call, and is answered 400 with a body
\* that holds an error field and nothing else.
C1_BlankMessageIs400 ==
    BlankMessage(body) =>
        /\ calls = <<>>
        /\ spc = "done" =>
            /\ response.status = 400
            /\ DOMAIN response.body = {"error"}
            /\ response.body.error.kind = "string"

C1_Witness ==
    /\ body.kind = "object"
    /\ body.message.kind = "string"
    /\ Len(body.message.val) = 2
    /\ BlankMessage(body)
    /\ spc = "done"
    /\ response.status = 400

\* retrieval succeeded and returned no passage
RetrievedNothing ==
    /\ failedAt = "none"
    /\ \/ chunks.kind = "null"
       \/ chunks.kind = "array" /\ chunks.val = <<>>

\* C2: when embedding and retrieval succeed and retrieval returns no passage,
\* the response is 200 with the fixed fallback answer and an empty source
\* list and generation is never called; and generation is called only after
\* retrieval returned at least one passage.
C2_EmptyRetrievalShortCircuits ==
    /\ RetrievedNothing =>
        /\ spc = "done"
        /\ response = [status |-> 200,
                       body |-> [answer |-> Str(FallbackAnswer), sources |-> Array(<<>>)]]
        /\ "generate" \notin Range(calls)
    /\ "generate" \in Range(calls) =>
        /\ calls = <<"embed", "retrieve", "generate">>
        /\ chunks.kind = "array"
        /\ Len(chunks.val) >= 1

C2_Witness ==
    /\ RetrievedNothing
    /\ chunks.kind = "array"
    /\ calls = <<"embed", "retrieve">>
    /\ response.status = 200

\* the response is a 200 produced after generation
AnsweredAfterGeneration ==
    /\ "generate" \in Range(calls)
    /\ spc = "done"
    /\ response.status = 200

\* C3: in a 200 response produced after generation, sources has one entry per
\* retrieved passage in retrieval order, the entry at position i (from 0) has
\* index i + 1, and the context sent to the generator labels the same passage
\* (same content, same page, "?" exactly when the source's page is null) with
\* that index.
C3_SourcesAlignWithContext ==
    AnsweredAfterGeneration =>
        LET srcs == response.body.sources.val
            cs == chunks.val
        IN  /\ Len(srcs) = Len(cs)
            /\ Len(context) = 7 * Len(cs) - 1
            /\ \A k \in 1..Len(srcs) :
                LET i == k - 1
                    at == 7 * i
                IN  /\ srcs[k].index = Num(i + 1)
                    /\ srcs[k].content = Str(cs[k].content)
                    /\ srcs[k].page = (IF cs[k].page.kind = "number" THEN cs[k].page ELSE Null)
                    /\ context[at + 1] = "["
                    /\ context[at + 2] = ToString(srcs[k].index.val)
                    /\ context[at + 3] = "] (Page "
                    /\ context[at + 4] = (IF srcs[k].page = Null THEN "?"
                                          ELSE ToString(srcs[k].page.val))
                    /\ context[at + 5] = ") "
                    /\ context[at + 6] = srcs[k].content.val
                    /\ k < Len(srcs) => context[at + 7] = "\n\n"

C3_Witness ==
    /\ AnsweredAfterGeneration
    /\ Len(response.body.sources.val) = 2
    /\ response.body.sources.val[1].page = Null
    /\ response.body.sources.val[2].page = Num(12)
    /\ response.body.sources.val[1].content # response.body.sources.val[2].content

\* the external calls of a request that went through the given stage
CallsThrough(stage) ==
    CASE stage = "embed" -> <<"embed">>
      [] stage = "retrieve" -> <<"embed", "retrieve">>
      [] stage = "generate" -> <<"embed", "retrieve", "generate">>

\* C4: when the embedding call, the retrieval or the generation call fails,
\* the request ends there with a 500 whose body holds only an error field:
\* every stage up to the failed one was called once, none after it, and no
\* answer or source list is returned.
C4_FirstFailureIs500 ==
    failedAt \in {"embed", "retrieve", "generate"} =>
        /\ spc = "done"
        /\ calls = CallsThrough(failedAt)
        /\ response.status = 500
        /\ DOMAIN response.body = {"error"}
        /\ response.body.error.kind = "string"

C4_Witness ==
    /\ failedAt = "retrieve"
    /\ spc = "done"
    /\ response.status = 500

-----------------------------------------------------------------------------
(* Properties of parseCitations and of the render, checked under SpecRender *)

DigitChars == {ToString(n) : n \in 0..9}
DigitOf(c) == CHOOSE n \in 0..9 : ToString(n) = c

\* positions i..j of t hold a marker: "[", one or more digits, "]"
IsMarker(t, i, j) ==
    /\ 1 <= i /\ i + 2 <= j /\ j <= Len(t)
    /\ t[i] = "[" /\ t[j] = "]"
    /\ \A k \in (i + 1)..(j - 1) : t[k] \in DigitChars

MarkerStarts(t) == {i \in 1..Len(t) : \E j \in 1..Len(t) : IsMarker(t, i, j)}
MarkerEnd(t, i) == CHOOSE j \in 1..Len(t) : IsMarker(t, i, j)

\* the decimal value of a digit string, most significant digit first
RECURSIVE Decimal(_, _)
Decimal(ds, acc) ==
    IF ds = <<>> THEN acc ELSE Decimal(Tail(ds), 10 * acc + DigitOf(Head(ds)))

MarkerNumber(t, i) == Decimal(SubSeq(t, i + 1, MarkerEnd(t, i) - 1), 0)

\* the marker numbers of t that a list of n sources resolves
Resolvable(t, n) ==
    {m \in 1..n : \E i \in MarkerStarts(t) : MarkerNumber(t, i) = m}

FirstOccurrence(t, m) ==
    CHOOSE i \in MarkerStarts(t) :
        /\ MarkerNumber(t, i) = m
        /\ \A j \in MarkerStarts(t) : MarkerNumber(t, j) = m => i <= j

\* the citation that marker number m resolves to
Resolve(srcs, m) ==
    [id |-> srcs[m].id,
     page |-> IF srcs[m].page.kind = "number" THEN srcs[m].page ELSE Num(m),
     content |-> srcs[m].content,
     similarity |-> srcs[m].similarity]

\* C5: parseCitations returns the text unchanged and one citation per distinct
\* marker number n with 1 <= n <= sources.length, in the order of the
\* numbers' first occurrences; the citation for n has the id, content and
\* similarity of sources[n-1] and its page, or n when that page is no number.
C5_CitationsInFirstOccurrenceOrder ==
    message # NoMessage =>
        LET t == data.answer.val
            srcs == data.sources.val
            ns == Resolvable(t, Len(srcs))
            Rank(m) == 1 + Cardinality({o \in ns : FirstOccurrence(t, o) < FirstOccurrence(t, m)})
        IN  /\ message.content = data.answer
            /\ Len(message.citations) = Cardinality(ns)
            /\ \A m \in ns : message.citations[Rank(m)] = Resolve(srcs, m)

C5_Witness ==
    /\ message # NoMessage
    /\ data.answer.val = <<"[", "2", "]", "[", "1", "]", "[", "2", "]">>
    /\ Len(data.sources.val) = 2
    /\ data.sources.val[2].page = Null
    /\ Len(message.citations) = 2
    /\ message.citations[1].page = Num(2)

\* the element rendered for the marker that starts at position i of t
ElementOfMarker(t, i) == rendered[2 * Cardinality({j \in MarkerStarts(t) : j <= i})]

\* C6: every marker [n] with 1 <= n <= sources.length is rendered as an
\* interactive control whose activation opens the citation resolved from
\* sources[n-1].
C6_ResolvableMarkersAreControls ==
    rendered # NotRendered =>
        LET t == data.answer.val
            srcs == data.sources.val
        IN  \A i \in MarkerStarts(t) :
                MarkerNumber(t, i) \in 1..Len(srcs) =>
                    /\ ElementOfMarker(t, i).kind = "button"
                    /\ ElementOfMarker(t, i).citation = Resolve(srcs, MarkerNumber(t, i))

\* C7: a dangling marker [n] (n = 0 or n > sources.length) is no error: every
\* citation of the list is resolved from a marker number within range, every
\* occurrence of the dangling token is rendered as a span holding the token as
\* written, and no interactive control bears a dangling number.
C7_DanglingMarkersAreLiteral ==
    rendered # NotRendered =>
        LET t == data.answer.val
            srcs == data.sources.val
        IN  /\ message # NoMessage
            /\ Len(rendered) = 2 * Cardinality(MarkerStarts(t)) + 1
            /\ \A k \in 1..Len(message.citations) :
                \E m \in Resolvable(t, Len(srcs)) : message.citations[k] = Resolve(srcs, m)
            /\ \A i \in MarkerStarts(t) :
                MarkerNumber(t, i) \notin 1..Len(srcs) =>
                    ElementOfMarker(t, i) = [kind |-> "span", text |-> SubSeq(t, i, MarkerEnd(t, i))]

C7_Witness ==
    /\ rendered # NotRendered
    /\ \E i \in MarkerStarts(data.answer.val) : MarkerNumber(data.answer.val, i) = 0
    /\ \E i \in MarkerStarts(data.answer.val) :
            MarkerNumber(data.answer.val, i) > Len(data.sources.val)
    /\ \E k \in 1..Len(rendered) : rendered[k].kind = "button"

-----------------------------------------------------------------------------
(* Properties of the Home component, checked under Spec *)

\* C8: the popup is Open(c, p) for the citation c the user activated last,
\* at the position p taken from the activated control, if no close action or
\* scrim click followed that activation, and Closed otherwise; submissions
\* and responses, which are no popup interaction, leave it as it is.
C8_PopupFollowsLastInteraction ==
    citationPopup =
        IF lastPopupEvent.type = "activate"
        THEN [citation |-> lastPopupEvent.citation,
              x |-> lastPopupEvent.rect.left,
              y |-> lastPopupEvent.rect.top - 10]
        ELSE Null

C8_Witness ==
    /\ citationPopup # Null
    /\ cpc = "reading"
    /\ Len(messages) = 3
    /\ "citations" \in DOMAIN messages[2]
    /\ Len(messages[2].citations) = 2
    /\ citationPopup.citation = messages[2].citations[2]

AllWhiteSpace(inp) == \A k \in 1..Len(inp) : inp[k] \in WhiteSpace

\* C9: at most one request to /api/chat is in flight, and only while the busy
\* flag is set; an invocation of sendMessage while the busy flag is set or
\* with an input of white space only sends nothing and changes neither the
\* messages, the input nor the busy flag.
C9_OneRequestInFlight ==
    /\ [](inFlight <= 1 /\ (inFlight = 1 => isLoading))
    /\ [][(submits' # submits /\ (isLoading \/ AllWhiteSpace(input)))
            => UNCHANGED <<messages, input, isLoading, inFlight, cpc>>]_vars

C9_Witness ==
    /\ submits = 2
    /\ Len(messages) = 1
    /\ isLoading
    /\ inFlight = 1

\* C10: when the fetch rejects, or resolves with a status outside 200..299,
\* sendMessage appends the fixed synthetic assistant message and nothing else.
C10_FailuresShowSyntheticMessage ==
    [][(\/ cpc = "fetching" /\ cpc' = "idle"
        \/ cpc = "reading" /\ cpc' = "idle" /\ fetched.status \notin 200..299)
        => messages' = Append(messages, ErrorMessage)]_vars

C10_Witness ==
    /\ cpc = "idle"
    /\ fetched.status = 500
    /\ Len(messages) = 2
    /\ messages[2] = ErrorMessage

-----------------------------------------------------------------------------
(* Property of sendMessage over a whole session, checked under FairSpec *)

\* messages is user, assistant, user, assistant, ... up to position n
Alternates(n) ==
    \A k \in 1..n : messages[k].role = (IF k % 2 = 1 THEN "user" ELSE "assistant")

\* C11: an accepted submission appends exactly one user message at once and
\* sets the busy flag; when the fetch settles it is followed by exactly one
\* assistant message and by the busy flag being cleared, on the success path
\* and on every failure path.  So the messages alternate user, assistant, with
\* a last user message still unanswered exactly while the busy flag is set,
\* and the busy flag never stays set for ever.
C11_EverySubmissionIsAnswered ==
    /\ [](/\ Alternates(Len(messages))
          /\ isLoading <=> (Len(messages) % 2 = 1)
          /\ isLoading <=> (cpc # "idle"))
    /\ [][(~isLoading /\ isLoading')
            => messages' = Append(messages, [role |-> "user", content |-> Str(input)])]_vars
    /\ [][(isLoading /\ ~isLoading')
            => /\ Len(messages') = Len(messages) + 1
               /\ SubSeq(messages', 1, Len(messages)) = messages
               /\ messages'[Len(messages')].role = "assistant"]_vars
    /\ [][(isLoading /\ isLoading') => messages' = messages]_vars
    /\ isLoading ~> ~isLoading

C11_Witness ==
    /\ ~isLoading
    /\ Len(messages) = 4
    /\ messages[2] = ErrorMessage
    /\ "citations" \in DOMAIN messages[4]
    /\ Len(messages[4].citations) = 2

=============================================================================
